---- MODULE Spec2Model ----
(***************************************************************************)
(* Notes application (Secure-Software_design): login, notes kept in two    *)
(* MongoDB collections (notes_primary, notes_fallback), an audit log and   *)
(* the PRIMARY_DB_IS_DOWN switch that selects the collection reads use.    *)
(*                                                                         *)
(* The repository holds five builds of the same server.  One of them runs  *)
(* in a behaviour; `variant` names it:                                     *)
(*   "api"     src/api/index.js            JWT, cookie then Bearer header  *)
(*   "server"  src/server.js 1-262         JWT, cookie then Bearer header  *)
(*   "bearer"  src/server.js 263-474       JWT, Authorization header only  *)
(*   "session" src/unnamed/part_001 1-194  express-session                 *)
(*   "cookie"  src/unnamed/part_001 196-   JWT, cookie only                *)
(*                                                                         *)
(* Every request is a process: it arrives (the handler runs up to its      *)
(* first database await), then each database operation completes in a step *)
(* of its own, so the operations of concurrent requests interleave.        *)
(***************************************************************************)
EXTENDS Integers, Sequences, FiniteSets, TLC

\* ------------------------------------------------------------------ bounds
MaxReq == 3         \* requests served in one behaviour
MaxInFlight == 2    \* requests being handled at the same time
MaxClock == 1       \* the clock (Date.now) runs 0..MaxClock
TokenTTL == 2       \* lifetime of a signed token in clock ticks (source: '1d')

RequestIds == 1..MaxReq
Clock == 0..MaxClock

\* ------------------------------------------------------- JavaScript values
Undefined == "undefined"   \* a missing string field
Null == "null"             \* what BSON stores for an undefined field
UndefinedId == 0           \* a missing numeric field
NullId == -1               \* an undefined id once stored and read back

Variants == {"api", "server", "bearer", "session", "cookie"}

\* --------------------------------------------------------- Identity Store
USERS ==
  [ user1 |-> [id |-> 1,  username |-> "user1", password |-> "password1", role |-> "user"],
    user2 |-> [id |-> 2,  username |-> "user2", password |-> "password2", role |-> "user"],
    admin |-> [id |-> 99, username |-> "admin", password |-> "adminpass", role |-> "admin"] ]

\* Names every JavaScript object inherits from Object.prototype; USERS[name]
\* yields the inherited member, whose fields are all undefined.
InheritedKeys == {"toString"}

Inherited == [id |-> UndefinedId, username |-> Undefined, password |-> Undefined, role |-> Undefined]

NoUser == [id |-> -2, username |-> "", password |-> "", role |-> ""]

\* USERS[username]: an own entry, an inherited member, or undefined (NoUser).
\* The session build's entries carry no username field.
Lookup(v, username) ==
  IF username \in DOMAIN USERS
    THEN IF v = "session" THEN [USERS[username] EXCEPT !.username = Undefined]
                          ELSE USERS[username]
    ELSE IF username \in InheritedKeys THEN Inherited ELSE NoUser


\* ------------------------------------------------------------ credentials
\* What a request carries in its cookie or Authorization header: nothing, a
\* signed token (payload, expiry, signature), or a session id.
NoCred == [sig |-> "none", id |-> UndefinedId, username |-> Undefined, role |-> Undefined, exp |-> 0, sid |-> 0]

\* jwt.sign(tokenPayload, JWT_SECRET, {expiresIn: '1d'}); undefined payload
\* fields are dropped by the JSON encoding and read back as undefined.
Sign(user, t) ==
  [sig |-> "good", id |-> user.id, username |-> user.username, role |-> user.role,
   exp |-> t + TokenTTL, sid |-> 0]

\* A token signed with another secret, claiming to be the administrator.
Forged == [sig |-> "bad", id |-> 99, username |-> "admin", role |-> "admin", exp |-> MaxClock + TokenTTL + 1, sid |-> 0]

SessionCookie(n) == [NoCred EXCEPT !.sig = "sid", !.sid = n]

\* Mutant of Verifies: the signature is not checked.
VerifiesUnsigned(tok, t) == t < tok.exp

\* jwt.verify(token, JWT_SECRET): the signature is ours and the token has
\* not expired.
Verifies(tok, t) == tok.sig = "good" /\ t < tok.exp

Payload(tok) == [id |-> tok.id, username |-> tok.username, password |-> Undefined, role |-> tok.role]

\* ------------------------------------------------------------------ notes
NoNote == [id |-> -1, content |-> "", authorId |-> NullId, authorUsername |-> "", timestamp |-> -1, oid |-> 0]

Stored(id) == IF id = UndefinedId THEN NullId ELSE id
StoredStr(s) == IF s = Undefined THEN Null ELSE s

\* Mutant of NewNote: the author's name is read from the request body.
NewNoteFromBody(user, content, t, oid) ==
  [id |-> t, content |-> content, authorId |-> Stored(user.id),
   authorUsername |-> content, timestamp |-> t, oid |-> oid]

\* newNote as insertOne writes it; oid is the _id the driver gives it.
NewNote(user, content, t, oid) ==
  [id |-> t, content |-> content, authorId |-> Stored(user.id),
   authorUsername |-> StoredStr(user.username), timestamp |-> t, oid |-> oid]

\* ------------------------------------------------------------ collections
RECURSIVE RemoveFirst(_, _)
\* deleteOne({id: noteId}): removes the first document that matches
RemoveFirst(coll, noteId) ==
  IF coll = <<>> THEN <<>>
  ELSE IF Head(coll).id = noteId THEN Tail(coll)
  ELSE <<Head(coll)>> \o RemoveFirst(Tail(coll), noteId)

RECURSIVE FindFirst(_, _)
\* notes.find(n => n.id === noteId)
FindFirst(notes, noteId) ==
  IF notes = <<>> THEN NoNote
  ELSE IF Head(notes).id = noteId THEN Head(notes)
  ELSE FindFirst(Tail(notes), noteId)

Range(s) == {s[i] : i \in DOMAIN s}

\* Mutant of SortedDesc: the documents come in insertion order.
InsertionOrder(coll) == {coll}

\* find({}).sort({timestamp: -1}).toArray(): the documents, newest first;
\* the order of documents with equal timestamps is not fixed.
SortedDesc(coll) ==
  { s \in [1..Len(coll) -> Range(coll)] :
      /\ \E p \in [1..Len(coll) -> 1..Len(coll)] :
           /\ \A i, j \in 1..Len(coll) : i # j => p[i] # p[j]
           /\ \A i \in 1..Len(coll) : s[i] = coll[p[i]]
      /\ \A i, j \in 1..Len(s) : i < j => s[i].timestamp >= s[j].timestamp }

\* ------------------------------------------------------------ audit events
Event(user, action, t) ==
  [timestamp |-> t, username |-> StoredStr(user.username), role |-> StoredStr(user.role), action |-> action]


\* ------------------------------------------------------- per-build traits
\* logger wraps its body in try/catch
LoggerCatches(v) == v \in {"api", "server", "bearer"}

\* the handler of this kind of request wraps its body in try/catch
HandlerCatches(v, kind) ==
  CASE v = "api" -> TRUE
    [] v \in {"server", "bearer"} -> kind # "logout"
    [] OTHER -> kind = "login"

\* how the shared database handle is kept
ConnStyle(v) ==
  CASE v \in {"api", "bearer"} -> "cachedDb"
    [] v = "server" -> "dbPromise"
    [] OTHER -> "client"

\* DELETE looks the note up in dbHandler.getNotes() (sorted) or in an
\* unsorted find({})
DeleteFindsSorted(v) == v # "api" /\ v # "bearer"

\* ---------------------------------------------------------------- state
VARIABLES
  variant,             \* the build that runs
  workload,            \* what the clients of this behaviour send
  now,                 \* the clock: Date.now(), new Date()
  PRIMARY_DB_IS_DOWN,  \* global.PRIMARY_DB_IS_DOWN: "undefined", "true", "false"
  notes_primary,       \* collection notes_primary, in insertion order
  notes_fallback,      \* collection notes_fallback, in insertion order
  audit_logs,          \* collection audit_logs, in insertion order
  sessions,            \* the session store: session id -> session.user
  db,                  \* cachedDb / dbPromise / client, db
  req                  \* the requests: inputs, position, locals, response

vars == <<variant, workload, now, PRIMARY_DB_IS_DOWN, notes_primary, notes_fallback,
          audit_logs, sessions, db, req>>

Truthy(flag) == flag = "true"
\* Mutant of Negate: the flag is switched on, never off.
NegateStuck(flag) == "true"

Negate(flag) == IF Truthy(flag) THEN "false" ELSE "true"

\* Mutant of CollectionName: the two collections are swapped.
CollectionNameSwapped(flag) == IF Truthy(flag) THEN "notes_primary" ELSE "notes_fallback"

\* global.PRIMARY_DB_IS_DOWN ? 'notes_fallback' : 'notes_primary'
CollectionName(flag) == IF Truthy(flag) THEN "notes_fallback" ELSE "notes_primary"

Collection(name) == IF name = "notes_fallback" THEN notes_fallback ELSE notes_primary

\* ------------------------------------------------------------- sessions
FirstSids == 1..3
Sids == 1..(3 + MaxReq)

\* req.session.user = { username, ...user }
SessionUser(username, user) ==
  [id |-> user.id, username |-> username, password |-> user.password, role |-> user.role]

SessionsAtStart ==
  [n \in Sids |->
     CASE n = 1 -> SessionUser("user1", USERS["user1"])
       [] n = 2 -> SessionUser("user2", USERS["user2"])
       [] n = 3 -> SessionUser("admin", USERS["admin"])
       [] OTHER -> NoUser]

\* Tokens signed before the behaviour starts and still held by clients.
TokensAtStart == {Sign(USERS[u], 0) : u \in DOMAIN USERS}

\* An older token of user1, which expires while the behaviour runs.
Stale == Sign(USERS["user1"], 1 - TokenTTL)


\* -------------------------------------------------------------- requests
IdleReq ==
  [kind |-> "none", pc |-> "idle", after |-> "",
   cookie |-> NoCred, header |-> NoCred,        \* the carriers of the request
   username |-> "", password |-> "",            \* body of POST /login
   content |-> "", noteId |-> -1,               \* body of POST /notes, :id
   user |-> NoUser,                             \* req.user, req.session.user
   note |-> NoNote,                             \* newNote, or the note found
   coll |-> "",                                 \* collectionName
   action |-> "", ts |-> -1, plan |-> 0,        \* the logger call under way
   status |-> 0,                                \* the response; 0: none yet
   notes |-> <<>>, logs |-> <<>>, token |-> NoCred, ruser |-> NoUser, isDown |-> "",
   failed |-> FALSE,                            \* a database operation failed
   failedAt |-> "", error |-> "",               \* where it failed; the error body
   seen |-> "",                                 \* history: the flag a toggle found
   applied |-> {},                              \* history: the collections its
                                                \* insertOne / deleteOne changed
   quiet |-> FALSE]                             \* history: no other request was
                                                \* handled while this DELETE was

Respond(rec, status) == [rec EXCEPT !.pc = "done", !.status = status]

\* The handler resumes after `await logger(...)` and sends its response.
AfterLog(rec) == Respond(rec, rec.plan)

\* res.status(500).json({ error: ... }) in the catch block of a handler: the
\* text depends on the route only, never on the operation that failed (the
\* login route adds details: err.message, the driver's message).
ErrorBody(kind) ==
  CASE kind = "login" -> "Server error"
    [] kind = "logout" -> "Logout failed"
    [] kind = "list" -> "Failed to fetch notes"
    [] kind = "create" -> "Failed to create note"
    [] kind = "delete" -> "Failed to delete note"
    [] OTHER -> "Failed to fetch audit logs"

\* An exception inside a request: swallowed by logger's catch, answered 500
\* by the handler's catch, or left unhandled.  An unhandled rejection of an
\* async handler leaves the request unanswered (Express 4) or reaches the
\* default error handler, which answers 500 (Express 5).
Throw(v, rec, inLogger) ==
  LET f == [rec EXCEPT !.failed = TRUE, !.failedAt = rec.pc] IN
  IF inLogger /\ LoggerCatches(v) THEN {AfterLog(f)}
  ELSE IF HandlerCatches(v, rec.kind)
    THEN {Respond([f EXCEPT !.error = ErrorBody(rec.kind)], 500)}
  ELSE {[f EXCEPT !.pc = "hung"], Respond([f EXCEPT !.error = "Internal Server Error"], 500)}

\* connectToDatabase() / initDb(): does the caller have to wait for a
\* connection attempt, and what the call does to the shared handle
DbWaits(v, d) ==
  CASE ConnStyle(v) = "cachedDb" -> d.handle # "ready"
    [] ConnStyle(v) = "dbPromise" -> d.handle # "ready"
    [] OTHER -> d.handle # "ready" /\ ~d.client

DbCall(v, d) ==
  CASE ConnStyle(v) = "cachedDb" ->
         IF d.handle = "ready" THEN d ELSE [d EXCEPT !.opened = @ + 1]
    [] ConnStyle(v) = "dbPromise" ->
         IF d.handle = "null" THEN [d EXCEPT !.handle = "pending", !.opened = @ + 1] ELSE d
    [] OTHER ->
         IF d.handle = "ready" THEN d
         ELSE IF ~d.client THEN [d EXCEPT !.client = TRUE, !.opened = @ + 1]
         ELSE [d EXCEPT !.handle = "ready"]

\* The code that runs between obtaining the handle and the next database
\* operation: the collection is chosen, the audit timestamp is taken.
Issue(rec, next, t, flag) ==
  CASE next = "find" -> [rec EXCEPT !.pc = next, !.coll = CollectionName(flag)]
    [] next = "log" -> [rec EXCEPT !.pc = next, !.ts = t]
    [] OTHER -> [rec EXCEPT !.pc = next]

\* `const db = await connectToDatabase()` followed by operation `next`
Enter(v, d, rec, next, t, flag) ==
  IF DbWaits(v, d) THEN [rec EXCEPT !.pc = "conn", !.after = next]
  ELSE Issue(rec, next, t, flag)

\* `await logger(user, action)`, after which the handler answers `plan`
StartLog(v, d, rec, user, action, plan, t, flag) ==
  Enter(v, d, [rec EXCEPT !.user = user, !.action = action, !.plan = plan], "log", t, flag)

\* authRequired / loginRequired: the identity the guard attaches, or NoUser
PickToken(v, cookie, header) ==
  CASE v \in {"api", "server"} -> IF cookie.sig # "none" THEN cookie ELSE header
    [] v = "bearer" -> header
    [] OTHER -> cookie

\* Mutant of Authenticate: a token that was presented to an answered logout
\* is refused from then on.
AuthenticateRevoking(v, cookie, header, t, sess) ==
  IF v = "session"
    THEN IF cookie.sig = "sid" THEN sess[cookie.sid] ELSE NoUser
    ELSE IF /\ Verifies(PickToken(v, cookie, header), t)
            /\ \A l \in RequestIds :
                 (req[l].kind = "logout" /\ req[l].status = 200) =>
                   PickToken(v, req[l].cookie, req[l].header) # PickToken(v, cookie, header)
           THEN Payload(PickToken(v, cookie, header))
           ELSE NoUser

Authenticate(v, cookie, header, t, sess) ==
  IF v = "session"
    THEN IF cookie.sig = "sid" THEN sess[cookie.sid] ELSE NoUser
    ELSE IF Verifies(PickToken(v, cookie, header), t)
           THEN Payload(PickToken(v, cookie, header))
           ELSE NoUser

\* Mutant of SessionsAfter: a logout leaves the session in the store.
SessionsAfterKeeping(v, sess, rec) ==
  IF v # "session" \/ rec.status = 0 THEN sess
  ELSE IF rec.kind = "login" /\ rec.token # NoCred THEN [sess EXCEPT ![rec.token.sid] = rec.ruser]
  ELSE sess

\* express-session writes the session back when the response ends: a login
\* stores session.user, a logout that was answered has destroyed it.
SessionsAfter(v, sess, rec) ==
  IF v # "session" \/ rec.status = 0 THEN sess
  ELSE IF rec.kind = "login" /\ rec.token # NoCred THEN [sess EXCEPT ![rec.token.sid] = rec.ruser]
  ELSE IF rec.kind = "logout" /\ rec.status = 200 THEN [sess EXCEPT ![rec.cookie.sid] = NoUser]
  ELSE sess


\* ------------------------------------------------------------- workloads
\* What the clients of a behaviour send, and whether database operations
\* may fail:
\*   "notes"   signed-in users (two authors, the administrator) work on notes
\*   "guard"   any HTTP client: every combination of carriers
\*   "login"   logins with good and bad credentials, sessions, the audit log
\*   "faults"  a signed-in user while database operations may fail
Workloads == {"notes", "guard", "login", "faults"}

\* requests served in a behaviour of the workload
Budget(w) == IF w \in {"guard", "faults"} THEN MaxReq - 1 ELSE MaxReq

LoginPairs(w) ==
  IF w = "login"
    THEN { <<"user1", "password1">>, <<"admin", "adminpass">>, <<"user1", "adminpass">>,
           <<"mallory", "adminpass">>, <<"user1", Undefined>>, <<"toString", Undefined>> }
    ELSE { <<"user1", "password1">>, <<"user1", "adminpass">> }

Contents(w) == IF w = "notes" THEN {"hello"} ELSE {"hello", Undefined}

NoteIds(w) == IF w = "guard" THEN {0} ELSE Clock

\* outcomes of a database operation: TRUE it succeeds, FALSE it fails
Outcomes(w) == IF w = "faults" THEN {TRUE, FALSE} ELSE {TRUE}

\* The users whose credentials are used for a kind of request.
Who(w, kind) ==
  CASE w = "notes" /\ kind = "create" -> {"user1", "user2"}
    [] w = "notes" -> {"user1", "admin"}
    [] w = "login" -> {"user1", "admin", "toString", Undefined}
    [] w = "faults" /\ kind = "audit" -> {"admin"}
    [] w = "faults" /\ kind = "create" -> {"user1", "user2"}
    [] w = "guard" /\ kind = "audit" -> {"user1", "admin"}
    [] OTHER -> {"user1"}

\* Credentials the server has handed out in a response.
Delivered(rq) == {rq[r].token : r \in {q \in RequestIds : rq[q].status # 0 /\ rq[q].token # NoCred}}

\* Credentials in clients' hands.
Known(w, v, rq) ==
  (IF v = "session" THEN {SessionCookie(n) : n \in FirstSids}
   ELSE IF w = "guard" THEN TokensAtStart \cup {Stale}
   ELSE TokensAtStart) \cup Delivered(rq)

\* The user a credential was handed to; a client keeps the cookie of a
\* session that has been destroyed.
Holder(v, cred) ==
  IF v # "session" THEN cred.username
  ELSE IF sessions[cred.sid] # NoUser THEN sessions[cred.sid].username
  ELSE IF cred.sid \in FirstSids THEN SessionsAtStart[cred.sid].username
  ELSE req[cred.sid - 3].username

\* <<cookie, header>> of a request
Carriers(w, v, rq, kind) ==
  LET mine == {k \in Known(w, v, rq) : Holder(v, k) \in Who(w, kind)} IN
  IF w = "guard"
    THEN { c \in (mine \cup {NoCred, Forged}) \X (mine \cup {NoCred}) :
             c[2] # NoCred => c[1] \in {NoCred, Forged, c[2]} }
    ELSE { <<k, IF v = "session" THEN NoCred ELSE k>> : k \in mine }

\* ----------------------------------------------------------------- Init
Init ==
  /\ variant \in Variants
  /\ workload \in Workloads
  /\ now = 0
  /\ PRIMARY_DB_IS_DOWN = "undefined"
  /\ notes_primary = <<>>
  /\ notes_fallback = <<>>
  /\ audit_logs = <<>>
  /\ sessions = SessionsAtStart
  /\ db = [handle |-> "null", client |-> FALSE, opened |-> 0]
  /\ req = [r \in RequestIds |-> IdleReq]

\* requests arrive in the order of their numbers
InFlight == {q \in RequestIds : req[q].pc \notin {"idle", "done", "hung"}}

Arrives(r) ==
  /\ req[r].pc = "idle"
  /\ \A q \in RequestIds : q < r => req[q].pc # "idle"
  /\ r <= Budget(workload)
  /\ Cardinality(InFlight) < MaxInFlight

Tick ==
  /\ now < MaxClock
  /\ now' = now + 1
  /\ UNCHANGED <<variant, workload, PRIMARY_DB_IS_DOWN, notes_primary, notes_fallback,
                 audit_logs, sessions, db, req>>

\* A request changes its own record, the shared handle and the sessions.
\* (An arrival ends the quiet of the requests being handled.)
Becomes(r, rec, d) ==
  /\ req' = [q \in RequestIds |->
               IF q = r THEN rec
               ELSE IF req[r].pc = "idle" /\ q \in InFlight THEN [req[q] EXCEPT !.quiet = FALSE]
               ELSE req[q]]
  /\ db' = d
  /\ sessions' = SessionsAfter(variant, sessions, rec)

Frame == UNCHANGED <<variant, workload, now>>
NotesFrame == UNCHANGED <<notes_primary, notes_fallback>>

\* The guard lets the request through, or answers 401.
Guarded(r, kind, c) ==
  [IdleReq EXCEPT !.kind = kind, !.cookie = c[1], !.header = c[2],
                  !.user = Authenticate(variant, c[1], c[2], now, sessions)]


\* ------------------------------------------------------------- arrivals
\* Mutant of UnknownUser: the event carries the role of the named user.
UnknownUserLeaky(username) ==
  [NoUser EXCEPT !.username = username,
                 !.role = IF username \in DOMAIN USERS THEN USERS[username].role ELSE "unknown"]

\* { username, role: 'unknown' }: what a failed login passes to logger
UnknownUser(username) == [NoUser EXCEPT !.username = username, !.role = "unknown"]

\* POST /api/login
Login(r) ==
  /\ Arrives(r)
  /\ \E up \in LoginPairs(workload) :
       LET rec0 == [IdleReq EXCEPT !.kind = "login", !.username = up[1], !.password = up[2]]
           entry == Lookup(variant, up[1])
           missing == variant = "api" /\ (up[1] = Undefined \/ up[2] = Undefined)
           bad == entry = NoUser \/ entry.password # up[2]
           ident == IF variant = "session"
                      THEN SessionUser(up[1], entry)
                      ELSE [id |-> entry.id, username |-> entry.username,
                            password |-> Undefined, role |-> entry.role]
           tok == IF variant = "session" THEN SessionCookie(3 + r) ELSE Sign(ident, now)
           unknown == UnknownUser(up[1])
           refused == [rec0 EXCEPT !.error = "Invalid credentials"]
       IN  IF missing
             THEN Becomes(r, Respond([rec0 EXCEPT !.error = "Username and password required"],
                                     400), db)
           ELSE IF bad /\ variant = "session" THEN Becomes(r, Respond(refused, 401), db)
           ELSE IF bad
             THEN Becomes(r, StartLog(variant, db, refused, unknown, "LOGIN_FAILED", 401,
                                      now, PRIMARY_DB_IS_DOWN), DbCall(variant, db))
           ELSE Becomes(r, StartLog(variant, db, [rec0 EXCEPT !.token = tok, !.ruser = ident],
                                    ident, "LOGIN_SUCCESS", 200, now, PRIMARY_DB_IS_DOWN),
                        DbCall(variant, db))
  /\ Frame /\ NotesFrame
  /\ UNCHANGED <<PRIMARY_DB_IS_DOWN, audit_logs>>

\* GET /api/logout, POST /api/logout
Logout(r) ==
  /\ Arrives(r)
  /\ \E c \in Carriers(workload, variant, req, "logout") :
       LET rec == Guarded(r, "logout", c) IN
       IF rec.user = NoUser THEN Becomes(r, Respond(rec, 401), db)
       ELSE Becomes(r, StartLog(variant, db, rec, rec.user, "LOGOUT", 200, now,
                                PRIMARY_DB_IS_DOWN), DbCall(variant, db))
  /\ Frame /\ NotesFrame
  /\ UNCHANGED <<PRIMARY_DB_IS_DOWN, audit_logs>>

\* GET /api/session
Session(r) ==
  /\ Arrives(r)
  /\ \E c \in Carriers(workload, variant, req, "session") :
       LET rec == Guarded(r, "session", c) IN
       IF rec.user = NoUser THEN Becomes(r, Respond(rec, 401), db)
       ELSE Becomes(r, Respond([rec EXCEPT !.ruser = rec.user], 200), db)
  /\ Frame /\ NotesFrame
  /\ UNCHANGED <<PRIMARY_DB_IS_DOWN, audit_logs>>

\* GET /api/notes
GetNotes(r) ==
  /\ Arrives(r)
  /\ \E c \in Carriers(workload, variant, req, "list") :
       LET rec == Guarded(r, "list", c) IN
       IF rec.user = NoUser THEN Becomes(r, Respond(rec, 401), db)
       ELSE Becomes(r, Enter(variant, db, rec, "find", now, PRIMARY_DB_IS_DOWN),
                    DbCall(variant, db))
  /\ Frame /\ NotesFrame
  /\ UNCHANGED <<PRIMARY_DB_IS_DOWN, audit_logs>>

\* POST /api/notes
PostNote(r) ==
  /\ Arrives(r)
  /\ \E c \in Carriers(workload, variant, req, "create"), content \in Contents(workload) :
       LET rec == [Guarded(r, "create", c) EXCEPT !.content = content] IN
       IF rec.user = NoUser THEN Becomes(r, Respond(rec, 401), db)
       ELSE IF variant = "api" /\ content = Undefined THEN Becomes(r, Respond(rec, 400), db)
       ELSE Becomes(r, Enter(variant, db,
                             [rec EXCEPT !.note = NewNote(rec.user, StoredStr(content), now, r)],
                             "insP", now, PRIMARY_DB_IS_DOWN),
                    DbCall(variant, db))
  /\ Frame /\ NotesFrame
  /\ UNCHANGED <<PRIMARY_DB_IS_DOWN, audit_logs>>

\* DELETE /api/notes/:id
DeleteNote(r) ==
  /\ Arrives(r)
  /\ \E c \in Carriers(workload, variant, req, "delete"), id \in NoteIds(workload) :
       LET rec == [Guarded(r, "delete", c) EXCEPT !.noteId = id, !.quiet = (InFlight = {})] IN
       IF rec.user = NoUser THEN Becomes(r, Respond(rec, 401), db)
       ELSE Becomes(r, Enter(variant, db, rec, "find", now, PRIMARY_DB_IS_DOWN),
                    DbCall(variant, db))
  /\ Frame /\ NotesFrame
  /\ UNCHANGED <<PRIMARY_DB_IS_DOWN, audit_logs>>

\* Mutant of AuditAllowed: the role check is missing.
AuditAllowedToAll(user) == TRUE

\* if (req.user.role !== 'admin') return res.status(403)
AuditAllowed(user) == user.role = "admin"

\* GET /api/audit
GetAudit(r) ==
  /\ Arrives(r)
  /\ \E c \in Carriers(workload, variant, req, "audit") :
       LET rec == Guarded(r, "audit", c) IN
       IF rec.user = NoUser THEN Becomes(r, Respond(rec, 401), db)
       ELSE IF ~AuditAllowed(rec.user) THEN Becomes(r, Respond(rec, 403), db)
       ELSE Becomes(r, Enter(variant, db, rec, "auditFind", now, PRIMARY_DB_IS_DOWN),
                    DbCall(variant, db))
  /\ Frame /\ NotesFrame
  /\ UNCHANGED <<PRIMARY_DB_IS_DOWN, audit_logs>>

\* POST /api/toggle_db
ToggleDb(r) ==
  /\ Arrives(r)
  /\ \E c \in Carriers(workload, variant, req, "toggle") :
       LET rec == Guarded(r, "toggle", c) IN
       IF rec.user = NoUser
         THEN /\ Becomes(r, Respond(rec, 401), db)
              /\ UNCHANGED PRIMARY_DB_IS_DOWN
         ELSE /\ PRIMARY_DB_IS_DOWN' = Negate(PRIMARY_DB_IS_DOWN)
              /\ Becomes(r, Respond([rec EXCEPT !.isDown = Negate(PRIMARY_DB_IS_DOWN),
                                                !.seen = PRIMARY_DB_IS_DOWN], 200), db)
  /\ Frame /\ NotesFrame
  /\ UNCHANGED audit_logs


\* ------------------------------------------------- database completions
\* The connection attempt a request waits for ends.
Connected(r) ==
  /\ req[r].pc = "conn"
  /\ \E ok \in Outcomes(workload) :
       LET rec == req[r]
           settled == ConnStyle(variant) = "dbPromise" /\ db.handle # "pending"
           good == IF settled THEN db.handle = "ready" ELSE ok
           d == IF settled THEN db
                ELSE IF ok THEN [db EXCEPT !.handle = "ready"]
                ELSE IF ConnStyle(variant) = "dbPromise" THEN [db EXCEPT !.handle = "rejected"]
                ELSE db
       IN  IF good
             THEN Becomes(r, Issue(rec, rec.after, now, PRIMARY_DB_IS_DOWN), d)
             ELSE \E out \in Throw(variant, rec, rec.after = "log") : Becomes(r, out, d)
  /\ Frame /\ NotesFrame
  /\ UNCHANGED <<PRIMARY_DB_IS_DOWN, audit_logs>>

\* Mutant of Visible: the author filter is missing.
VisibleUnfiltered(user, notes) == notes

\* req.user.role === 'admin' ? notes : notes.filter(n => n.authorId === req.user.id)
Visible(user, notes) ==
  IF user.role = "admin" THEN notes ELSE SelectSeq(notes, LAMBDA n : n.authorId = user.id)

\* note.authorId === req.user.id || req.user.role === 'admin'
CanDelete(user, note) == note.authorId = user.id \/ user.role = "admin"

\* Mutant of Found: the lookup reads notes_primary whatever the flag says.
FoundInPrimary(rec) ==
  IF rec.kind = "list" \/ DeleteFindsSorted(variant)
    THEN SortedDesc(notes_primary)
    ELSE {notes_primary}

\* what the find of a request returns
Found(rec) ==
  IF rec.kind = "list" \/ DeleteFindsSorted(variant)
    THEN SortedDesc(Collection(rec.coll))
    ELSE {Collection(rec.coll)}

\* Mutant of Deny: the denial is answered without the audit call.
DenyUnlogged(v, d, rec) == Respond(rec, 403)

\* await logger(req.user, 'DELETE_NOTE_DENIED'); return res.status(403)
Deny(v, d, rec) ==
  StartLog(v, d, rec, rec.user, "DELETE_NOTE_DENIED", 403, now, PRIMARY_DB_IS_DOWN)

\* find({}) on the chosen notes collection returns: GET answers, DELETE
\* looks the note up and checks the permission.
FindDone(r) ==
  /\ req[r].pc = "find"
  /\ \E ok \in Outcomes(workload) :
       LET rec == req[r] IN
       IF ~ok THEN \E out \in Throw(variant, rec, FALSE) : Becomes(r, out, db)
       ELSE \E notes \in Found(rec) :
         IF rec.kind = "list"
           THEN Becomes(r, Respond([rec EXCEPT !.notes = Visible(rec.user, notes)], 200), db)
         ELSE LET note == FindFirst(notes, rec.noteId) IN
           IF note = NoNote THEN Becomes(r, Respond(rec, 404), db)
           ELSE IF ~CanDelete(rec.user, note)
             THEN Becomes(r, Deny(variant, db, [rec EXCEPT !.note = note]), DbCall(variant, db))
           ELSE Becomes(r, Enter(variant, db, [rec EXCEPT !.note = note], "delP", now,
                                 PRIMARY_DB_IS_DOWN), DbCall(variant, db))
  /\ Frame /\ NotesFrame
  /\ UNCHANGED <<PRIMARY_DB_IS_DOWN, audit_logs>>

\* Mutant of InsertPrimary: the note replaces a stored note of the same id.
InsertPrimaryById(r) ==
  /\ req[r].pc = "insP"
  /\ notes_primary' = Append(RemoveFirst(notes_primary, req[r].note.id), req[r].note)
  /\ Becomes(r, [req[r] EXCEPT !.pc = "insF", !.applied = {"notes_primary"}], db)
  /\ Frame
  /\ UNCHANGED <<PRIMARY_DB_IS_DOWN, notes_fallback, audit_logs>>

\* db.collection('notes_primary').insertOne(newNote)
InsertPrimary(r) ==
  /\ req[r].pc = "insP"
  /\ \E ok \in Outcomes(workload) :
       IF ok
         THEN /\ notes_primary' = Append(notes_primary, req[r].note)
              /\ Becomes(r, [req[r] EXCEPT !.pc = "insF", !.applied = {"notes_primary"}], db)
         ELSE /\ UNCHANGED notes_primary
              /\ \E out \in Throw(variant, req[r], FALSE) : Becomes(r, out, db)
  /\ Frame
  /\ UNCHANGED <<PRIMARY_DB_IS_DOWN, notes_fallback, audit_logs>>

\* Mutant of InsertFallback: the note is written to notes_primary only.
InsertFallbackSkipped(r) ==
  /\ req[r].pc = "insF"
  /\ Becomes(r, StartLog(variant, db, req[r], req[r].user, "CREATE_NOTE", 201,
                         now, PRIMARY_DB_IS_DOWN), DbCall(variant, db))
  /\ Frame
  /\ UNCHANGED <<PRIMARY_DB_IS_DOWN, notes_primary, notes_fallback, audit_logs>>

\* db.collection('notes_fallback').insertOne(newNote), then the audit call
InsertFallback(r) ==
  /\ req[r].pc = "insF"
  /\ \E ok \in Outcomes(workload) :
       IF ok
         THEN /\ notes_fallback' = Append(notes_fallback, req[r].note)
              /\ Becomes(r, StartLog(variant, db,
                                     [req[r] EXCEPT !.applied = @ \cup {"notes_fallback"}],
                                     req[r].user, "CREATE_NOTE", 201,
                                     now, PRIMARY_DB_IS_DOWN), DbCall(variant, db))
         ELSE /\ UNCHANGED notes_fallback
              /\ \E out \in Throw(variant, req[r], FALSE) : Becomes(r, out, db)
  /\ Frame
  /\ UNCHANGED <<PRIMARY_DB_IS_DOWN, notes_primary, audit_logs>>

\* db.collection('notes_primary').deleteOne({ id: noteId })
DeletePrimary(r) ==
  /\ req[r].pc = "delP"
  /\ \E ok \in Outcomes(workload) :
       IF ok
         THEN /\ notes_primary' = RemoveFirst(notes_primary, req[r].noteId)
              /\ Becomes(r, [req[r] EXCEPT !.pc = "delF", !.applied = {"notes_primary"}], db)
         ELSE /\ UNCHANGED notes_primary
              /\ \E out \in Throw(variant, req[r], FALSE) : Becomes(r, out, db)
  /\ Frame
  /\ UNCHANGED <<PRIMARY_DB_IS_DOWN, notes_fallback, audit_logs>>

\* Mutant of DeleteFallback: a failure of the deleteOne is ignored and the
\* audit call is made all the same.
DeleteFallbackLenient(r) ==
  /\ req[r].pc = "delF"
  /\ \E ok \in Outcomes(workload) :
       /\ notes_fallback' = IF ok THEN RemoveFirst(notes_fallback, req[r].noteId)
                                  ELSE notes_fallback
       /\ Becomes(r, StartLog(variant, db,
                              [req[r] EXCEPT !.applied = IF ok THEN @ \cup {"notes_fallback"} ELSE @],
                              req[r].user, "DELETE_NOTE", 200,
                              now, PRIMARY_DB_IS_DOWN), DbCall(variant, db))
  /\ Frame
  /\ UNCHANGED <<PRIMARY_DB_IS_DOWN, notes_primary, audit_logs>>

\* db.collection('notes_fallback').deleteOne({ id: noteId }), then the audit call
DeleteFallback(r) ==
  /\ req[r].pc = "delF"
  /\ \E ok \in Outcomes(workload) :
       IF ok
         THEN /\ notes_fallback' = RemoveFirst(notes_fallback, req[r].noteId)
              /\ Becomes(r, StartLog(variant, db,
                                     [req[r] EXCEPT !.applied = @ \cup {"notes_fallback"}],
                                     req[r].user, "DELETE_NOTE", 200,
                                     now, PRIMARY_DB_IS_DOWN), DbCall(variant, db))
         ELSE /\ UNCHANGED notes_fallback
              /\ \E out \in Throw(variant, req[r], FALSE) : Becomes(r, out, db)
  /\ Frame
  /\ UNCHANGED <<PRIMARY_DB_IS_DOWN, notes_primary, audit_logs>>

\* Mutant of LogDone: the event replaces the earlier events of its user.
LogDoneLatestOnly(r) ==
  /\ req[r].pc = "log"
  /\ audit_logs' = Append(SelectSeq(audit_logs,
                                    LAMBDA e : e.username # StoredStr(req[r].user.username)),
                          Event(req[r].user, req[r].action, req[r].ts))
  /\ Becomes(r, AfterLog(req[r]), db)
  /\ Frame /\ NotesFrame
  /\ UNCHANGED PRIMARY_DB_IS_DOWN

\* db.collection('audit_logs').insertOne({timestamp, username, role, action})
\* returns inside logger; the handler then answers.
LogDone(r) ==
  /\ req[r].pc = "log"
  /\ \E ok \in Outcomes(workload) :
       IF ok
         THEN /\ audit_logs' = Append(audit_logs, Event(req[r].user, req[r].action, req[r].ts))
              /\ Becomes(r, AfterLog(req[r]), db)
         ELSE /\ UNCHANGED audit_logs
              /\ \E out \in Throw(variant, req[r], TRUE) : Becomes(r, out, db)
  /\ Frame /\ NotesFrame
  /\ UNCHANGED PRIMARY_DB_IS_DOWN

\* db.collection('audit_logs').find({}).sort({ timestamp: -1 }).toArray()
AuditFindDone(r) ==
  /\ req[r].pc = "auditFind"
  /\ \E ok \in Outcomes(workload) :
       IF ok
         THEN \E logs \in SortedDesc(audit_logs) :
                Becomes(r, Respond([req[r] EXCEPT !.logs = logs], 200), db)
         ELSE \E out \in Throw(variant, req[r], FALSE) : Becomes(r, out, db)
  /\ Frame /\ NotesFrame
  /\ UNCHANGED <<PRIMARY_DB_IS_DOWN, audit_logs>>

Next ==
  \/ Tick
  \/ \E r \in RequestIds :
       \/ Login(r) \/ Logout(r) \/ Session(r) \/ GetNotes(r) \/ PostNote(r)
       \/ DeleteNote(r) \/ GetAudit(r) \/ ToggleDb(r)
       \/ Connected(r) \/ FindDone(r) \/ InsertPrimary(r) \/ InsertFallback(r)
       \/ DeletePrimary(r) \/ DeleteFallback(r) \/ LogDone(r) \/ AuditFindDone(r)

Spec == Init /\ [][Next]_vars

NextNotes ==
  \/ Tick
  \/ \E r \in RequestIds :
       \/ GetNotes(r) \/ PostNote(r) \/ DeleteNote(r) \/ ToggleDb(r)
       \/ Connected(r) \/ FindDone(r) \/ InsertPrimary(r) \/ InsertFallback(r)
       \/ DeletePrimary(r) \/ DeleteFallback(r) \/ LogDone(r)

NextLogin ==
  \/ Tick
  \/ \E r \in RequestIds :
       \/ Login(r) \/ Logout(r) \/ Session(r) \/ GetAudit(r)
       \/ Connected(r) \/ LogDone(r) \/ AuditFindDone(r)

\* one workload at a time
InitNotes == Init /\ workload = "notes"
InitGuard == Init /\ workload = "guard"
InitLogin == Init /\ workload = "login"
InitFaults == Init /\ workload = "faults"

SpecNotes == InitNotes /\ [][NextNotes]_vars
SpecGuard == InitGuard /\ [][Next]_vars
SpecLogin == InitLogin /\ [][NextLogin]_vars
SpecFaults == InitFaults /\ [][Next]_vars

\* ================================================================ claims
Requests(kind) == {r \in RequestIds : req[r].kind = kind}
Running(r) == req[r].pc \notin {"idle", "done", "hung"}
Answered(r, status) == req[r].pc = "done" /\ req[r].status = status
NoFailure == \A r \in RequestIds : ~req[r].failed

Replicas == {"notes_primary", "notes_fallback"}
Administrator == Payload(Sign(USERS["admin"], 0))

\* C1: whenever no create-note or delete-note request is in progress (and no
\* database operation has failed), notes_primary and notes_fallback hold the
\* same set of notes.
C1_ReplicaEquality ==
  (NoFailure /\ \A r \in Requests("create") \cup Requests("delete") : ~Running(r))
    => Range(notes_primary) = Range(notes_fallback)

\* A delete request that passed the permission check: its deleteOne calls
\* run or have run.
Deleting(d) ==
  /\ req[d].kind = "delete"
  /\ \/ req[d].pc \in {"delP", "delF"}
     \/ req[d].action = "DELETE_NOTE"
     \/ req[d].failed /\ req[d].note # NoNote /\ req[d].action = ""

\* no delete of the id of the note that request r created has been let through
Untouched(r) == \A d \in RequestIds : Deleting(d) => req[d].noteId # req[r].note.id

\* C2: once POST /notes has been answered 201, and as long as no DELETE of
\* that id has been let through, the created note is in what GET /notes
\* returns to its author and to an administrator, whichever collection the
\* Outage Flag selects: membership does not depend on the flag at creation
\* or at the read.
C2_CreateRoundTrip ==
  \A r \in Requests("create") :
    (Answered(r, 201) /\ Untouched(r)) =>
      \A name \in Replicas : \A viewer \in {req[r].user, Administrator} :
        req[r].note \in Range(Visible(viewer, Collection(name)))

\* a note created while the flag was on, read after it was switched off again
C2_Witness ==
  \E r \in Requests("create") : \E t \in Requests("toggle") :
    /\ t < r /\ Answered(t, 200) /\ req[t].isDown = "true"
    /\ Answered(r, 201) /\ Untouched(r)
    /\ PRIMARY_DB_IS_DOWN = "false"

\* C3: the notes GET /notes returns are, for a non-admin, exactly the notes
\* of the active collection whose authorId is the caller's id, and for an
\* admin exactly all notes of the active collection.
C3_Visibility ==
  [][\A r \in RequestIds :
       (req[r].kind = "list" /\ req[r].pc = "find" /\ req'[r].pc = "done"
          /\ req'[r].status = 200) =>
         LET active == Range(Collection(req[r].coll))
             got == Range(req'[r].notes)
         IN  /\ Len(req'[r].notes) = Cardinality(got)
             /\ IF req[r].user.role = "admin" THEN got = active
                ELSE got = {n \in active : n.authorId = req[r].user.id}]_vars

\* a non-admin was answered its own note while the active collection also
\* held a note of another author
C3_Witness ==
  \E r \in Requests("list") :
    /\ Answered(r, 200) /\ req[r].user.role # "admin" /\ req[r].notes # <<>>
    /\ \E n \in Range(Collection(req[r].coll)) : n.authorId # req[r].user.id

\* C4: a DELETE /notes/:id is let through iff the active collection holds a
\* note of that id whose authorId is the caller's id, or holds a note of
\* that id and the caller is an admin; a DELETE of a present note that is not
\* let through is answered 403 and changes neither collection.  (Stated for
\* requests handled while no other request is.)
C4_DeletePermission ==
  [][\A r \in RequestIds :
       (req[r].kind = "delete" /\ req[r].quiet /\ req[r].pc = "find" /\ req'[r].pc # "find") =>
         LET present == {n \in Range(Collection(req[r].coll)) : n.id = req[r].noteId}
             allowed == \E n \in present :
                          n.authorId = req[r].user.id \/ req[r].user.role = "admin"
         IN  /\ allowed <=> req'[r].pc = "delP"
             /\ (present # {} /\ ~allowed) =>
                  /\ req'[r].plan = 403
                  /\ UNCHANGED <<notes_primary, notes_fallback>>]_vars

\* C5: once an admin's DELETE of another user's note has been answered 200,
\* the note is in what GET /notes returns to nobody, whichever collection
\* the Outage Flag selects.  (Stated for deletes handled while no other
\* request is: the note's creation had been answered.)
C5_AdminDelete ==
  \A d \in Requests("delete") :
    (/\ Answered(d, 200) /\ req[d].quiet
     /\ req[d].user.role = "admin" /\ req[d].note.authorId # req[d].user.id) =>
      \A name \in Replicas : \A u \in DOMAIN USERS :
        req[d].note \notin Range(Visible(USERS[u], Collection(name)))

\* The routes behind the Access Guard.
Protected == {"logout", "session", "list", "create", "delete", "audit", "toggle"}

\* The carriers a build takes the identity assertion from.
CarriersRead(v, rec) ==
  CASE v \in {"api", "server"} -> {rec.cookie, rec.header}
    [] v = "bearer" -> {rec.header}
    [] OTHER -> {rec.cookie}

\* A valid assertion: a token this server signed that has not expired, or
\* the id of a session that holds a user.
ValidAssertion(c, t, sess) ==
  \/ c.sig = "good" /\ t < c.exp
  \/ c.sig = "sid" /\ sess[c.sid] # NoUser

\* C6: a request to a protected route that carries no valid assertion (none,
\* a forged one, an expired one) is answered 401 on arrival and changes
\* nothing: no note, no audit event, not the Outage Flag, no session.
C6_AccessGuard ==
  [][\A r \in RequestIds :
       (/\ req[r].pc = "idle" /\ req'[r].pc # "idle" /\ req'[r].kind \in Protected
        /\ \A c \in CarriersRead(variant, req'[r]) : ~ValidAssertion(c, now, sessions)) =>
         /\ req'[r].pc = "done" /\ req'[r].status = 401
         /\ UNCHANGED <<notes_primary, notes_fallback, audit_logs, PRIMARY_DB_IS_DOWN,
                        sessions, db>>]_vars

\* a forged and an expired assertion have both been turned away
C6_Witness ==
  \E r, q \in RequestIds :
    /\ Answered(r, 401) /\ req[r].cookie = Forged /\ req[r].kind \in {"create", "delete", "toggle"}
    /\ Answered(q, 401) /\ Stale \in {req[q].cookie, req[q].header} /\ req[q].kind \in Protected

\* C7: GET /audit answers an authenticated caller whose role is not admin
\* 403 and gives it no audit event; events are returned to admins only.
C7_AuditAdminOnly ==
  \A r \in Requests("audit") :
    /\ (req[r].user # NoUser /\ req[r].user.role # "admin") =>
         (Answered(r, 403) /\ req[r].logs = <<>>)
    /\ req[r].logs # <<>> => req[r].user.role = "admin"

\* a non-admin was refused while the audit log held events
C7_Witness ==
  \E r \in Requests("audit") :
    /\ Answered(r, 403) /\ req[r].user.role = "user" /\ audit_logs # <<>>

\* C8: a login with a (username, password) pair that matches an entry of the
\* Identity Store is answered 200 with that entry's id, username and role; a
\* login with any other pair is answered 401 and a LOGIN_FAILED event with
\* the attempted username and role 'unknown' is in the audit log.
C8_LoginOutcome ==
  \A r \in Requests("login") :
    (req[r].pc \in {"done", "hung"} /\ req[r].password # Undefined) =>
      LET u == req[r].username IN
      IF u \in DOMAIN USERS /\ USERS[u].password = req[r].password
        THEN /\ Answered(r, 200)
             /\ req[r].ruser.id = USERS[u].id
             /\ req[r].ruser.username = u
             /\ req[r].ruser.role = USERS[u].role
        ELSE /\ Answered(r, 401)
             /\ \E i \in DOMAIN audit_logs :
                  /\ audit_logs[i].action = "LOGIN_FAILED"
                  /\ audit_logs[i].username = u
                  /\ audit_logs[i].role = "unknown"

\* The audit append of request r failed: the request had called logger when
\* a database operation of it failed.
AuditFailed(r) == req[r].failed /\ req[r].action # ""

\* C9: when the audit append of a login, logout, create or delete request
\* fails, the request still gets the response it would have got (200, 201,
\* 401 or 403).
C9_AuditFailureTolerated ==
  \A r \in RequestIds :
    (req[r].kind \in {"login", "logout", "create", "delete"} /\ AuditFailed(r)) =>
      Answered(r, req[r].plan)

\* C10: after a DELETE /notes/:id was answered 200, the note it deleted is in
\* neither collection, and a second DELETE of the same id, with no create in
\* between, is answered 404.  (Stated for deletes handled while no other
\* request is.)
C10_DeleteTwice ==
  \A d \in Requests("delete") :
    /\ (Answered(d, 200) /\ req[d].quiet) =>
         req[d].note \notin Range(notes_primary) \cup Range(notes_fallback)
    /\ (/\ req[d].quiet /\ req[d].pc = "done" /\ req[d].user # NoUser
        /\ \E f \in Requests("delete") :
             /\ f < d /\ Answered(f, 200) /\ req[f].noteId = req[d].noteId
             /\ \A c \in Requests("create") : ~(f < c /\ c < d)) =>
         req[d].status = 404

\* The successful toggles that arrived before request t, and the last of them.
TogglesBefore(t) == {f \in Requests("toggle") : f < t /\ Answered(f, 200)}
LastToggleBefore(f, t) == f \in TogglesBefore(t) /\ \A g \in TogglesBefore(t) : g <= f

\* request t arrives at POST /toggle_db and is let through in this step
Toggles(t) == req[t].pc = "idle" /\ req'[t].kind = "toggle" /\ req'[t].status = 200

\* C11: the second of two consecutive toggles puts the Outage Flag, read as
\* a boolean, and with it the collection reads are served from, back to what
\* the first one found; no toggle changes notes_primary, notes_fallback or
\* the audit log.
C11_ToggleTwice ==
  [][\A t \in RequestIds :
       Toggles(t) =>
         /\ UNCHANGED <<notes_primary, notes_fallback, audit_logs>>
         /\ \A f \in RequestIds :
              LastToggleBefore(f, t) =>
                /\ Truthy(PRIMARY_DB_IS_DOWN') = Truthy(req[f].seen)
                /\ CollectionName(PRIMARY_DB_IS_DOWN') = CollectionName(req[f].seen)]_vars

\* two toggles in a row, from the flag's value at start, over stored notes
C11_Witness ==
  \E f, t \in Requests("toggle") :
    /\ f < t /\ Answered(f, 200) /\ Answered(t, 200)
    /\ req[f].seen = "undefined" /\ req[t].seen = "true"
    /\ PRIMARY_DB_IS_DOWN = "false"
    /\ notes_primary # <<>> /\ notes_fallback # <<>>

\* isDown of the latest toggle response; false before the first toggle
LastReturned ==
  LET done == {f \in Requests("toggle") : Answered(f, 200)} IN
  IF done = {} THEN "false"
  ELSE req[CHOOSE f \in done : \A g \in done : g <= f].isDown

\* C12: a toggle_db request of any authenticated user is let through, sets
\* the Outage Flag to the negation of the value it finds and returns the new
\* value as isDown (true for the first toggle after start); a read that
\* chooses its collection afterwards takes notes_fallback iff the value last
\* returned is true.
C12_ToggleResult ==
  [][\A t \in RequestIds :
       /\ (req[t].pc = "idle" /\ req'[t].kind = "toggle" /\ req'[t].user # NoUser) =>
            /\ req'[t].pc = "done" /\ req'[t].status = 200
            /\ req'[t].isDown \in {"true", "false"}
            /\ Truthy(req'[t].isDown) = ~Truthy(PRIMARY_DB_IS_DOWN)
            /\ PRIMARY_DB_IS_DOWN' = req'[t].isDown
            /\ TogglesBefore(t) = {} => req'[t].isDown = "true"
       /\ (req[t].pc # "find" /\ req'[t].pc = "find") =>
            (req'[t].coll = "notes_fallback" <=> LastReturned = "true")]_vars

\* a non-admin's first toggle returned true and a read was then served from
\* notes_fallback
C12_Witness ==
  \E t \in Requests("toggle") : \E r \in Requests("list") :
    /\ t < r /\ Answered(t, 200) /\ req[t].user.role = "user"
    /\ req[t].seen = "undefined" /\ req[t].isDown = "true"
    /\ Answered(r, 200) /\ req[r].coll = "notes_fallback"

\* what the client of request r gets: the status and the error body
ErrorResponse(r) == <<req[r].status, req[r].error>>

\* C13: a create whose notes_primary insert succeeded and whose
\* notes_fallback insert failed does not report success (no 201, no
\* CREATE_NOTE event) and, when it is answered, is answered with an error
\* that differs from the one of a create whose notes_primary insert failed.
C13_PartialCreateSurfaced ==
  /\ \A r \in Requests("create") :
       req[r].failedAt = "insF" =>
         /\ req[r].action # "CREATE_NOTE"
         /\ req[r].pc = "done" => req[r].status >= 400
  /\ \A p, q \in Requests("create") :
       (/\ req[p].failedAt = "insP" /\ req[p].pc = "done"
        /\ req[q].failedAt = "insF" /\ req[q].pc = "done") =>
         ErrorResponse(p) # ErrorResponse(q)

\* C14: when the notes_primary deleteOne of a permitted delete fails, the
\* request goes on to attempt the notes_fallback deleteOne; a request one of
\* whose deleteOne calls failed is not answered 200.
C14_DeleteAttemptsBoth ==
  [][\A d \in RequestIds :
       /\ (req[d].kind = "delete" /\ req[d].pc = "delP" /\ req'[d].failed) =>
            req'[d].pc = "delF"
       /\ (req[d].kind = "delete" /\ req'[d].failedAt \in {"delP", "delF"}) =>
            req'[d].status # 200]_vars

OtherName(name) == IF name = "notes_fallback" THEN "notes_primary" ELSE "notes_fallback"

\* C15: a DELETE /notes/:id whose id names no note of the collection the
\* Outage Flag selected is answered 404, for every caller, changes neither
\* collection and appends no audit event, whatever the other collection
\* holds.
C15_DeleteAbsent ==
  [][\A d \in RequestIds :
       (/\ req[d].kind = "delete" /\ req[d].pc = "find" /\ req'[d].pc # "find"
        /\ \A n \in Range(Collection(req[d].coll)) : n.id # req[d].noteId) =>
         /\ req'[d].pc = "done" /\ req'[d].status = 404
         /\ req'[d].action = ""
         /\ UNCHANGED <<notes_primary, notes_fallback, audit_logs>>]_vars

\* an admin, handled alone, was answered 404 while the collection the flag
\* did not select held a note of that id, created by an earlier request
C15_Witness ==
  \E d \in Requests("delete") :
    /\ Answered(d, 404) /\ req[d].quiet /\ req[d].user.role = "admin"
    /\ \E n \in Range(Collection(OtherName(req[d].coll))) :
         n.id = req[d].noteId /\ n.oid < d

\* C16: a delete that has been answered 403 had called logger with
\* DELETE_NOTE_DENIED before: the event, with the caller's username and
\* role, is in the audit log, or its append was attempted and failed.
C16_DeniedDeleteLogged ==
  \A d \in Requests("delete") :
    req[d].status = 403 =>
      /\ req[d].action = "DELETE_NOTE_DENIED"
      /\ \/ AuditFailed(d)
         \/ \E i \in DOMAIN audit_logs :
              /\ audit_logs[i].action = "DELETE_NOTE_DENIED"
              /\ audit_logs[i].username = StoredStr(req[d].user.username)
              /\ audit_logs[i].role = StoredStr(req[d].user.role)

\* a user was refused the delete of another author's note, and the event is
\* in the audit log
C16_Witness ==
  \E d \in Requests("delete") :
    /\ Answered(d, 403) /\ ~req[d].failed
    /\ req[d].note.authorId # req[d].user.id
    /\ \E i \in DOMAIN audit_logs : audit_logs[i].action = "DELETE_NOTE_DENIED"

\* C17: a request to a protected route that carries a well-signed,
\* unexpired token in a carrier its build reads (cookie or Bearer header) is
\* authenticated, whatever the other carrier holds.
C17_EitherCarrier ==
  [][\A r \in RequestIds :
       (/\ req[r].pc = "idle" /\ req'[r].pc # "idle" /\ req'[r].kind \in Protected
        /\ \E c \in CarriersRead(variant, req'[r]) : c.sig = "good" /\ now < c.exp) =>
         /\ req'[r].user # NoUser
         /\ req'[r].status # 401]_vars

\* the builds whose identity assertion is a signed token
SignedToken == variant # "session"

\* C18: in the signed-token builds a logout is answered 200 once its LOGOUT
\* event is appended, and revokes nothing: a later request that presents the
\* same token before it expires is authenticated with the same identity.
C18_StatelessLogout ==
  [][\A r \in RequestIds :
       /\ (SignedToken /\ req[r].kind = "logout" /\ req[r].pc = "log" /\ req'[r].pc = "done") =>
            /\ req'[r].status = 200
            /\ Len(audit_logs') = Len(audit_logs) + 1
            /\ audit_logs'[Len(audit_logs')].action = "LOGOUT"
            /\ audit_logs'[Len(audit_logs')].username = StoredStr(req[r].user.username)
       /\ (/\ SignedToken /\ req[r].pc = "idle" /\ req'[r].pc # "idle"
           /\ req'[r].kind \in Protected) =>
            \A l \in Requests("logout") :
              (/\ Answered(l, 200)
               /\ req[l].cookie = req'[r].cookie /\ req[l].header = req'[r].header
               /\ \A c \in {req'[r].cookie, req'[r].header} \ {NoCred} : now < c.exp) =>
                /\ req'[r].user = req[l].user
                /\ req'[r].status # 401]_vars

\* after a logout was answered, the same token was presented again to
\* GET /session and the same identity was returned
C18_Witness ==
  /\ SignedToken
  /\ \E l \in Requests("logout") : \E r \in Requests("session") :
       /\ l < r /\ Answered(l, 200) /\ Answered(r, 200)
       /\ req[r].cookie = req[l].cookie /\ req[r].header = req[l].header
       /\ req[r].ruser = req[l].user
       /\ \E i \in DOMAIN audit_logs : audit_logs[i].action = "LOGOUT"

\* C19: an authenticated POST /notes whose body has no content is answered
\* 400, inserts nothing into notes_primary or notes_fallback and appends no
\* CREATE_NOTE event.
C19_InvalidInputTerminal ==
  \A r \in Requests("create") :
    (req[r].pc # "idle" /\ req[r].user # NoUser /\ req[r].content = Undefined) =>
      /\ Answered(r, 400)
      /\ req[r].action # "CREATE_NOTE"
      /\ \A n \in Range(notes_primary) \cup Range(notes_fallback) : n.oid # r

\* what the client of a login gets: status, error text, user and assertion
LoginResponse(r) == <<req[r].status, req[r].error, req[r].ruser, req[r].token>>

FailedLoginRoles(username) ==
  {audit_logs[i].role : i \in {j \in DOMAIN audit_logs :
      audit_logs[j].action = "LOGIN_FAILED" /\ audit_logs[j].username = username}}

\* C20: two logins that fail with the same password, one naming an entry of
\* the Identity Store and one naming none, get the same response, and the
\* LOGIN_FAILED events recorded for them carry the same role.
C20_ConstantShapeFailure ==
  \A p, q \in Requests("login") :
    (/\ req[p].pc = "done" /\ req[p].status # 200
     /\ req[q].pc = "done" /\ req[q].status # 200
     /\ req[p].password = req[q].password
     /\ req[p].username \in DOMAIN USERS /\ req[q].username \notin DOMAIN USERS) =>
      /\ LoginResponse(p) = LoginResponse(q)
      /\ req[p].user.role = req[q].user.role
      /\ \A a \in FailedLoginRoles(req[p].username) :
           \A b \in FailedLoginRoles(req[q].username) : a = b

\* a wrong password for user1 and the same password for an unknown name were
\* both refused and both recorded
C20_Witness ==
  \E p, q \in Requests("login") :
    /\ Answered(p, 401) /\ req[p].username = "user1"
    /\ Answered(q, 401) /\ req[q].username = "mallory"
    /\ req[p].password = req[q].password
    /\ FailedLoginRoles("user1") # {} /\ FailedLoginRoles("mallory") # {}

\* C21: when several requests call the database initialiser before a
\* connection exists, one connection attempt is started and the callers share
\* its handle: no state has two connections created.  (Stated where no
\* connection attempt fails, so a second attempt is never a retry.)
C21_SingleConnection == NoFailure => db.opened <= 1

\* how many documents of a collection are this note
Copies(coll, note) == Cardinality({i \in DOMAIN coll : coll[i] = note})

\* C22: for any two create requests, however their inserts interleave (no
\* insert failing, no DELETE of their ids let through), once both have been
\* answered both notes are in notes_primary and in notes_fallback, each
\* exactly once.
C22_ConcurrentCreates ==
  \A r1, r2 \in Requests("create") :
    (/\ r1 # r2 /\ Answered(r1, 201) /\ Answered(r2, 201)
     /\ NoFailure /\ Untouched(r1) /\ Untouched(r2)) =>
      \A name \in Replicas : \A r \in {r1, r2} : Copies(Collection(name), req[r].note) = 1

\* two creates of the same clock tick whose inserts interleaved: the two
\* collections hold their notes in different orders
C22_Witness ==
  \E r1, r2 \in Requests("create") :
    /\ r1 # r2 /\ Answered(r1, 201) /\ Answered(r2, 201)
    /\ Untouched(r1) /\ Untouched(r2)
    /\ req[r1].note.id = req[r2].note.id
    /\ notes_primary = <<req[r1].note, req[r2].note>>
    /\ notes_fallback = <<req[r2].note, req[r1].note>>

\* C23: note ids are unique: in every state no two notes of a collection have
\* the same id, also when two creates are handled within one clock tick.
C23_UniqueIds ==
  \A name \in Replicas :
    \A i, j \in DOMAIN Collection(name) :
      i # j => Collection(name)[i].id # Collection(name)[j].id

\* C24: every request that passed the Access Guard is answered, also when a
\* database operation fails: no handler ends without having sent a response
\* (a request left so is never answered later: no step resumes it).
C24_EveryRequestAnswered ==
  \A r \in RequestIds : (req[r].kind \in Protected /\ req[r].failed) => req[r].pc # "hung"

\* the audit action of a create or delete request
DataAction(kind) == IF kind = "create" THEN "CREATE_NOTE" ELSE "DELETE_NOTE"

\* events of an action in the audit log
Logged(action) == {i \in DOMAIN audit_logs : audit_logs[i].action = action}

\* C25: a CREATE_NOTE (DELETE_NOTE) event is appended only by a request whose
\* insert (delete) has been applied to notes_primary and to notes_fallback;
\* a request whose data operation failed appends no such event; and the
\* success response is sent only when the audit call has returned.
C25_StepOrder ==
  /\ [](\A kind \in {"create", "delete"} :
          Cardinality(Logged(DataAction(kind)))
            <= Cardinality({r \in Requests(kind) : req[r].applied = Replicas /\ req[r].pc = "done"}))
  /\ [][\A r \in Requests("create") \cup Requests("delete") :
          /\ (/\ req[r].pc = "log" /\ req'[r].pc # "log"
              /\ req[r].action = DataAction(req[r].kind)
              /\ audit_logs' # audit_logs) =>
               /\ req[r].applied = Replicas /\ ~req[r].failed
               /\ audit_logs' = Append(audit_logs,
                                       Event(req[r].user, DataAction(req[r].kind), req[r].ts))
          /\ (req[r].status = 0 /\ req'[r].status \in {200, 201}) =>
               /\ req[r].pc = "log" /\ req[r].action = DataAction(req[r].kind)
               /\ req[r].applied = Replicas
               /\ audit_logs' # audit_logs \/ req'[r].failedAt = "log"]_vars

\* one create failed at its second insert and was answered, another was
\* answered 201: the log holds the event of the second only
C25_Witness ==
  \E r1, r2 \in Requests("create") :
    /\ req[r1].pc = "done" /\ req[r1].failedAt = "insF" /\ req[r1].applied = {"notes_primary"}
    /\ Answered(r2, 201) /\ req[r2].applied = Replicas
    /\ Cardinality(Logged("CREATE_NOTE")) = 1

\* C26: the audit log only grows: a step leaves it as it is or appends one
\* event; every event stays where it is with its timestamp, username, role
\* and action unchanged.
C26_AuditAppendOnly ==
  [][/\ Len(audit_logs') \in {Len(audit_logs), Len(audit_logs) + 1}
     /\ SubSeq(audit_logs', 1, Len(audit_logs)) = audit_logs]_vars

\* the log was read by an administrator and has grown since, by an event of
\* a user who already had one in it
C26_Witness ==
  \E r \in Requests("audit") :
    /\ Answered(r, 200) /\ req[r].logs # <<>>
    /\ Len(audit_logs) > Len(req[r].logs)
    /\ audit_logs[Len(audit_logs)].username \in {e.username : e \in Range(req[r].logs)}

\* the user a credential was issued to
IssuedTo(cred) == USERS[Holder(variant, cred)]

\* C27: every note in either collection carries as authorId and
\* authorUsername the id and username of the user whose credential the create
\* request presented, and a stored note's author fields never change.
C27_OwnershipFixed ==
  /\ [](\A name \in Replicas : \A n \in Range(Collection(name)) :
          /\ req[n.oid].kind = "create" /\ req[n.oid].note = n
          /\ n.authorId = IssuedTo(PickToken(variant, req[n.oid].cookie, req[n.oid].header)).id
          /\ n.authorUsername = Holder(variant, PickToken(variant, req[n.oid].cookie,
                                                          req[n.oid].header)))
  /\ [][\A old \in Range(notes_primary) \cup Range(notes_fallback) :
          \A new \in Range(notes_primary') \cup Range(notes_fallback') :
            new.oid = old.oid =>
              new.authorId = old.authorId /\ new.authorUsername = old.authorUsername]_vars

\* notes of two authors are stored side by side, and one of the authors has
\* deleted another note since
C27_Witness ==
  \E r1, r2 \in Requests("create") : \E d \in Requests("delete") :
    /\ req[r1].note.authorId # req[r2].note.authorId
    /\ \A name \in Replicas : {req[r1].note, req[r2].note} \subseteq Range(Collection(name))
    /\ req[d].pc = "done"

\* C28: GET /notes reads the Outage Flag once, when it issues its find: the
\* find goes to notes_fallback if the flag is true then and to notes_primary
\* otherwise; the notes answered all come from that one collection, whatever
\* the flag has become since, and are ordered newest first.
C28_ReadTarget ==
  [][\A r \in RequestIds :
       /\ (req'[r].kind = "list" /\ req[r].pc # "find" /\ req'[r].pc = "find") =>
            req'[r].coll = IF PRIMARY_DB_IS_DOWN = "true" THEN "notes_fallback"
                                                          ELSE "notes_primary"
       /\ (req[r].kind = "list" /\ req[r].pc = "find") =>
            /\ req'[r].coll = req[r].coll
            /\ req'[r].status = 200 =>
                 /\ Range(req'[r].notes) \subseteq Range(Collection(req[r].coll))
                 /\ \A i, j \in DOMAIN req'[r].notes :
                      i < j => req'[r].notes[i].timestamp >= req'[r].notes[j].timestamp]_vars

\* a GET was answered two notes of different creation times
C28_Witness ==
  \E r \in Requests("list") :
    /\ Answered(r, 200) /\ Len(req[r].notes) = 2
    /\ req[r].notes[1].timestamp > req[r].notes[2].timestamp

\* the session id a request presents (0: none)
Sid(rec) == IF rec.cookie.sig = "sid" THEN rec.cookie.sid ELSE 0

\* a logout of this session id has been answered
LoggedOut(sid) ==
  \E l \in Requests("logout") : Answered(l, 200) /\ Sid(req[l]) = sid

\* C29: in the session build, once a logout has been answered its session
\* holds no user, and every request that arrives later at a guarded route
\* with that session id is answered 401.  (A later login is given a session
\* id of its own; the id of a destroyed session is not used again.)
C29_SessionLogout ==
  /\ [](variant = "session" =>
          \A sid \in Sids : LoggedOut(sid) => sessions[sid] = NoUser)
  /\ [][variant = "session" =>
          \A r \in RequestIds :
            (/\ req[r].pc = "idle" /\ req'[r].pc # "idle"
             /\ req'[r].kind \in Protected
             /\ LoggedOut(Sid(req'[r]))) =>
              req'[r].pc = "done" /\ req'[r].status = 401]_vars

\* after its logout was answered, the session id was presented again
C29_Witness ==
  /\ variant = "session"
  /\ \E l \in Requests("logout") : \E r \in RequestIds :
       /\ Answered(l, 200) /\ l < r
       /\ req[r].kind \in Protected /\ Sid(req[r]) = Sid(req[l])
       /\ Answered(r, 401)

\* the notes a step removes from either collection
Removed ==
  (Range(notes_primary) \ Range(notes_primary')) \cup (Range(notes_fallback) \ Range(notes_fallback'))

\* C30: a delete request of a non-admin user never removes, from
\* notes_primary or from notes_fallback, a note whose authorId is not that
\* user's id, also when notes of two authors share an id.  (Stated for
\* deletes handled while no other request is.)
C30_NoCrossUserDeletion ==
  [][\A r \in Requests("delete") :
       (/\ req[r].quiet /\ req[r].user.role # "admin"
        /\ req[r].pc \in {"delP", "delF"} /\ req'[r].pc # req[r].pc) =>
         \A n \in Removed : n.authorId = req[r].user.id]_vars

\* C31: once a create has been answered 201, its note stays in notes_primary
\* and in notes_fallback until a delete whose permission check was made on
\* that very note is carried out; nothing else removes it.  (Stated for
\* deletes handled while no other request is.)
C31_AcknowledgedDurable ==
  \A r \in Requests("create") :
    (Answered(r, 201) /\ NoFailure /\ \A d \in Requests("delete") : req[d].quiet) =>
      \/ \A name \in Replicas : req[r].note \in Range(Collection(name))
      \/ \E d \in Requests("delete") : Deleting(d) /\ req[d].note = req[r].note

\* C32: the identity attached to an accepted request is the id, username and
\* role of a user of the Identity Store (the one whose login produced the
\* assertion presented); in particular it is an administrator's only if that
\* user's stored role is admin.
C32_NoEscalation ==
  \A r \in RequestIds :
    (req[r].kind \in Protected /\ req[r].user # NoUser) =>
      \E u \in DOMAIN USERS :
        /\ req[r].user.id = USERS[u].id
        /\ req[r].user.username = u
        /\ req[r].user.role = USERS[u].role

\* C33: the identity that login and /session return (the one placed in the
\* assertion or session) holds id, username and role, never the password.
C33_PasswordStaysInStore ==
  \A r \in Requests("login") \cup Requests("session") :
    Answered(r, 200) => req[r].ruser.password = Undefined

\* C34: a failed connection attempt is not kept: a request that has to wait
\* for the shared connection either joins an attempt that is under way or
\* starts a fresh one, also after an earlier attempt has failed.
C34_FailedAttemptNotCached ==
  [][\A r \in RequestIds :
       (req[r].pc # "conn" /\ req'[r].pc = "conn") =>
         db.handle = "pending" \/ db'.opened = db.opened + 1]_vars

====
